---- MODULE Spec2Model ----
(***************************************************************************)
(* Model of the value-pick engine of ValueOddsTips (src/main.py):          *)
(*   naive_edge   - de-vigged consensus probabilities and the value pick   *)
(*   tips         - per-sport collection, ranking and truncation of picks  *)
(*   get_odds     - the time-bucketed lru_cache in front of the odds API   *)
(* Python floats are modelled as exact rationals <<numerator, denominator>>*)
(* (denominator > 0, lowest terms).  The iteration order of the Python set *)
(* of outcome names is an input of naive_edge (a permutation of the set).  *)
(***************************************************************************)
EXTENDS Integers, Sequences, FiniteSets, TLC

VARIABLES
    game,         \* SpecEdge: the match handed to naive_edge
    order,        \* SpecEdge: list(outcome_names), the set's iteration order
    edge,         \* SpecEdge: <<>> before the call, <<locals of naive_edge>> after
    pc,           \* position of the running operation
    sportIdx,     \* tips: index into SPORTS of the sport being processed
    games,        \* tips: the list get_odds returned for the sport
    gameIdx,      \* tips: index of the next game of the inner loop
    value_picks,  \* tips: picks collected for the sport
    top_picks,    \* tips: the sorted, truncated picks of the sport
    edgeLog,      \* tips: naive_edge's result for each game seen (history)
    iterOut,      \* tips: what the last iteration of each kind added to msg (history)
    msg,          \* tips: the sport blocks built so far
    response,     \* tips: the reply sent at the end
    cache,        \* lru_cache of _get_odds_cached, least recently used first
    clock,        \* time.time() in seconds
    requests,     \* network requests issued, in order (history)
    lastCall      \* the last get_odds call and what it returned (history)

vars == <<game, order, edge, pc, sportIdx, games, gameIdx, value_picks,
          top_picks, edgeLog, iterOut, msg, response, cache, clock,
          requests, lastCall>>

(***************************************************************************)
(* Exact rational arithmetic standing for Python float arithmetic.         *)
(***************************************************************************)
Abs(x) == IF x < 0 THEN -x ELSE x

RECURSIVE GCD(_, _)
GCD(a, b) == IF b = 0 THEN a ELSE GCD(b, a % b)

Rat(n, d) ==
    LET g == GCD(Abs(n), Abs(d))
        s == IF d < 0 THEN -1 ELSE 1
    IN  <<(s * n) \div g, (s * d) \div g>>

Zero == <<0, 1>>
One == <<1, 1>>

RAdd(x, y) ==
    LET g == GCD(x[2], y[2])
        l == (x[2] \div g) * y[2]
    IN  Rat(x[1] * (l \div x[2]) + y[1] * (l \div y[2]), l)

RNeg(x) == <<-x[1], x[2]>>

RSub(x, y) == RAdd(x, RNeg(y))

RMul(x, y) ==
    LET g1 == GCD(Abs(x[1]), y[2])
        g2 == GCD(Abs(y[1]), x[2])
    IN  Rat((x[1] \div g1) * (y[1] \div g2), (x[2] \div g2) * (y[2] \div g1))

\* x / y for y # 0 (the callers raise ZeroDivisionError before dividing by 0)
RDiv(x, y) == RMul(x, IF y[1] < 0 THEN <<-y[2], -y[1]>> ELSE <<y[2], y[1]>>)

RLess(x, y) == RSub(x, y)[1] < 0

RLeq(x, y) == RSub(x, y)[1] <= 0

RECURSIVE SumSeq(_)
SumSeq(s) == IF s = <<>> THEN Zero ELSE RAdd(Head(s), SumSeq(Tail(s)))

\* sum(d.values()) of a dict d whose keys were inserted in the order ks
SumValues(d, ks) == SumSeq([i \in 1..Len(ks) |-> d[ks[i]]])

\* sorted(s): ascending, stable
RECURSIVE Insert(_, _)
Insert(x, s) ==
    IF s = <<>> THEN <<x>>
    ELSE IF RLess(x, Head(s)) THEN <<x>> \o s
    ELSE <<Head(s)>> \o Insert(x, Tail(s))

RECURSIVE Sorted(_)
Sorted(s) == IF s = <<>> THEN <<>> ELSE Insert(s[Len(s)], Sorted(SubSeq(s, 1, Len(s) - 1)))

(***************************************************************************)
(* Match data.  A game is [home_team, bookmakers]; a bookmaker is          *)
(* [markets |-> <<[outcomes |-> dict]>>] where dict maps the outcome names *)
(* it quotes to their decimal price; markets = <<>> is a malformed record. *)
(***************************************************************************)
None == <<>>

MIN_EDGE == <<1, 20>>

Outcomes(bookmaker) == bookmaker.markets[1].outcomes

\* bookmaker['markets'][0] raises IndexError
Malformed(bookmaker) == bookmaker.markets = <<>>

Bookmakers(g) == {g.bookmakers[i] : i \in 1..Len(g.bookmakers)}

OutcomeNames(g) == UNION {DOMAIN Outcomes(b) : b \in {x \in Bookmakers(g) : ~Malformed(x)}}

\* 1 / price raises ZeroDivisionError
ZeroPrice(g) == \E b \in Bookmakers(g) : \E n \in DOMAIN Outcomes(b) : Outcomes(b)[n][1] = 0

ImpliedProbs(outcomes_dict, names) ==
    [n \in names |-> IF n \in DOMAIN outcomes_dict THEN RDiv(One, outcomes_dict[n]) ELSE Zero]

Range(s) == {s[i] : i \in 1..Len(s)}

TotalImplied(bookmaker, outcome_names) ==
    SumValues(ImpliedProbs(Outcomes(bookmaker), Range(outcome_names)), outcome_names)

VigFree(bookmaker, outcome_names) ==
    LET implied_probs == ImpliedProbs(Outcomes(bookmaker), Range(outcome_names))
        total_implied == SumValues(implied_probs, outcome_names)
    IN  [n \in Range(outcome_names) |-> RDiv(implied_probs[n], total_implied)]

\* bookmaker_data: one entry per bookmaker whose implied probabilities do not sum to 0
RECURSIVE BookmakerData(_, _)
BookmakerData(bookmakers, outcome_names) ==
    IF bookmakers = <<>> THEN <<>>
    ELSE LET b == Head(bookmakers)
             rest == BookmakerData(Tail(bookmakers), outcome_names)
         IN  IF TotalImplied(b, outcome_names) = Zero THEN rest
             ELSE <<[vig_free |-> VigFree(b, outcome_names),
                     outcomes_dict |-> Outcomes(b)]>> \o rest

\* best_odds_per_outcome after one more usable bookmaker
BestAfter(best, outcomes_dict) ==
    [n \in (DOMAIN best) \cup (DOMAIN outcomes_dict) |->
        IF n \notin DOMAIN best THEN outcomes_dict[n]
        ELSE IF n \in DOMAIN outcomes_dict /\ RLess(best[n], outcomes_dict[n])
             THEN outcomes_dict[n]
             ELSE best[n]]

RECURSIVE BestOdds(_)
BestOdds(bookmaker_data) ==
    IF bookmaker_data = <<>> THEN <<>>
    ELSE BestAfter(BestOdds(SubSeq(bookmaker_data, 1, Len(bookmaker_data) - 1)),
                   bookmaker_data[Len(bookmaker_data)].outcomes_dict)

\* the bookmaker quotes the outcome at the best price: left out of its consensus
ExcludedAll(bm_data, name, best) == FALSE

Excluded(bm_data, name, best) ==
    /\ name \in DOMAIN bm_data.outcomes_dict
    /\ name \in DOMAIN best
    /\ bm_data.outcomes_dict[name] = best[name]

Positive(p) == p[1] > 0

VigFreeOf(bookmaker_data, name) ==
    [i \in 1..Len(bookmaker_data) |-> bookmaker_data[i].vig_free[name]]

ProbsExcludingBest(bookmaker_data, name, best) ==
    VigFreeOf(SelectSeq(bookmaker_data,
                        LAMBDA d : ~Excluded(d, name, best) /\ Positive(d.vig_free[name])),
              name)

VigFreeProbsAll(bookmaker_data, name) ==
    VigFreeOf(SelectSeq(bookmaker_data, LAMBDA d : Positive(d.vig_free[name])), name)

ProbsForConsensus(bookmaker_data, name, best) ==
    IF ProbsExcludingBest(bookmaker_data, name, best) = <<>>
    THEN VigFreeProbsAll(bookmaker_data, name)
    ELSE ProbsExcludingBest(bookmaker_data, name, best)

Median(probs) ==
    LET sorted_probs == Sorted(probs)
        n == Len(sorted_probs)
    IN  IF n = 1 THEN sorted_probs[1]
        ELSE IF n % 2 = 0
             THEN RDiv(RAdd(sorted_probs[n \div 2], sorted_probs[n \div 2 + 1]), <<2, 1>>)
             ELSE sorted_probs[n \div 2 + 1]

FairProbsRaw(consensus_probs, outcome_names) == consensus_probs

FairProbs(consensus_probs, outcome_names) ==
    LET total_consensus == SumValues(consensus_probs, outcome_names)
    IN  [n \in Range(outcome_names) |-> RDiv(consensus_probs[n], total_consensus)]

ExpectedRoi(fair_prob, best_price) == RSub(RMul(fair_prob, best_price), One)

Better(expected_roi, best_roi) == RLess(best_roi, expected_roi)

\* the selection loop: <<best_pick, best_odds, best_roi>> after the names in outcome_names
RECURSIVE SelectBest(_, _, _)
SelectBest(outcome_names, fair_probs, best) ==
    IF outcome_names = <<>> THEN <<None, Zero, <<-1, 1>>>>
    ELSE LET prev == SelectBest(SubSeq(outcome_names, 1, Len(outcome_names) - 1),
                                fair_probs, best)
             name == outcome_names[Len(outcome_names)]
         IN  IF name \notin DOMAIN best THEN prev
             ELSE IF Better(ExpectedRoi(fair_probs[name], best[name]), prev[3])
                  THEN <<name, best[name], ExpectedRoi(fair_probs[name], best[name])>>
                  ELSE prev

QualifiesAboveZero(best_roi) == RLeq(Zero, best_roi)

Qualifies(best_roi) == RLeq(MIN_EDGE, best_roi)

Failed == [result |-> None, estimated |-> FALSE, best |-> <<>>, data |-> <<>>,
           cands |-> <<>>, consensus |-> <<>>, fair |-> <<>>]

\* naive_edge(game) with list(outcome_names) = outcome_names: its result and locals
NaiveEdge(g, outcome_names) ==
    IF g.bookmakers = <<>> THEN Failed
    ELSE IF \E b \in Bookmakers(g) : Malformed(b) THEN Failed
    ELSE IF Cardinality(OutcomeNames(g)) < 2 THEN Failed
    ELSE IF ZeroPrice(g) THEN Failed
    ELSE
    LET bookmaker_data == BookmakerData(g.bookmakers, outcome_names)
        best == BestOdds(bookmaker_data)
        names == Range(outcome_names)
        cands == [n \in names |-> ProbsForConsensus(bookmaker_data, n, best)]
    IN  IF bookmaker_data = <<>> THEN Failed
        ELSE IF \E n \in names : cands[n] = <<>> THEN Failed
        ELSE
        LET consensus_probs == [n \in names |-> Median(cands[n])]
        IN  IF SumValues(consensus_probs, outcome_names) = Zero THEN Failed
            ELSE
            LET fair_probs == FairProbs(consensus_probs, outcome_names)
                sel == SelectBest(outcome_names, fair_probs, best)
            IN  [result |-> IF Qualifies(sel[3]) THEN sel ELSE None,
                 estimated |-> TRUE, best |-> best, data |-> bookmaker_data,
                 cands |-> cands, consensus |-> consensus_probs, fair |-> fair_probs]

\* the orders in which list(set) can enumerate the names of a game
RECURSIVE Perms(_)
Perms(S) ==
    IF S = {} THEN {<<>>}
    ELSE UNION {{<<x>> \o p : p \in Perms(S \ {x})} : x \in S}

Orders(g) == Perms(OutcomeNames(g))

(***************************************************************************)
(* Inputs of naive_edge: every game of up to MaxBookmakers bookmakers over *)
(* the names and prices below, and the games of the documented scenarios.  *)
(***************************************************************************)
MaxBookmakers == 3

Names == {"A", "B"}

Prices == {<<3, 2>>, <<3, 1>>}

QuoteDicts == UNION {[S -> Prices \cup {Zero}] : S \in SUBSET Names}

BookmakerRecords ==
    {[markets |-> <<[outcomes |-> d]>>] : d \in QuoteDicts} \cup {[markets |-> <<>>]}

SeqsUpTo(S, n) == UNION {[1..k -> S] : k \in 0..n}

Quote2(a, b) == [markets |-> <<[outcomes |-> [n \in {"A", "B"} |-> IF n = "A" THEN a ELSE b]]>>]

\* Scenario A of the design: X quotes A=2.00, B=1.80; Y quotes A=1.90, B=2.00
ScenarioA == [home_team |-> "ScenarioA",
              bookmakers |-> <<Quote2(<<2, 1>>, <<9, 5>>), Quote2(<<19, 10>>, <<2, 1>>)>>]

\* Scenario B of the design: X quotes A=3.00, B=1.40; Y quotes A=1.50, B=2.60
ScenarioB == [home_team |-> "ScenarioB",
              bookmakers |-> <<Quote2(<<3, 1>>, <<7, 5>>), Quote2(<<3, 2>>, <<13, 5>>)>>]

\* both outcomes at exactly the acceptance threshold: 0.5 * 2.10 - 1 = 0.05
AtThreshold == [home_team |-> "AtThreshold",
                bookmakers |-> <<Quote2(<<21, 10>>, <<21, 10>>), Quote2(<<2, 1>>, <<2, 1>>)>>]

EdgeGames ==
    {[home_team |-> "H", bookmakers |-> bs] : bs \in SeqsUpTo(BookmakerRecords, MaxBookmakers)}
    \cup {ScenarioA, ScenarioB, AtThreshold}

(***************************************************************************)
(* get_odds: _get_odds_cached behind functools.lru_cache(maxsize=32),      *)
(* keyed by (sport, int(time.time()) // 900).  A cached value is the list  *)
(* object the first call returned: id is that object's identity.           *)
(***************************************************************************)
SPORTS == <<"soccer_epl", "soccer_spain_la_liga", "soccer_germany_bundesliga",
            "soccer_italy_serie_a", "tennis_atp", "tennis_wta", "basketball_nba",
            "americanfootball_nfl", "handball_euro_championship", "badminton", "darts">>

CACHE_MAXSIZE == 32

TTL_SECONDS == 900

TtlHashUnbucketed(now) == now

TtlHash(now) == now \div TTL_SECONDS

CacheIndex(c, key) == {i \in 1..Len(c) : c[i].key = key}

Cached(c, key) == CacheIndex(c, key) # {}

CacheValue(c, key) == c[CHOOSE i \in CacheIndex(c, key) : TRUE].value

\* a hit makes the entry the most recently used
Touch(c, key) ==
    SelectSeq(c, LAMBDA e : e.key # key) \o <<[key |-> key, value |-> CacheValue(c, key)]>>

\* a miss stores the result, evicting the least recently used entry of a full cache
Put(c, key, value) ==
    Append(IF Len(c) >= CACHE_MAXSIZE THEN Tail(c) ELSE c, [key |-> key, value |-> value])

\* the body of _get_odds_cached: r.json() on status 200, [] otherwise
Fetched(net, id) == [id |-> id, games |-> IF net.ok THEN net.games ELSE <<>>]

\* get_odds(sport) at time now, the network answering net if asked
GetOdds(c, reqs, now, sport, net) ==
    LET key == <<sport, TtlHash(now)>>
    IN  IF Cached(c, key)
        THEN [cache |-> Touch(c, key), requests |-> reqs, value |-> CacheValue(c, key),
              hit |-> TRUE]
        ELSE LET value == Fetched(net, Len(reqs) + 1)
             IN  [cache |-> Put(c, key, value),
                  requests |-> Append(reqs, [sport |-> sport, at |-> now, id |-> value.id]),
                  value |-> value, hit |-> FALSE]

Called(previous, sport, now, got) ==
    [n |-> previous.n + 1, sport |-> sport, at |-> now, value |-> got.value, hit |-> got.hit]

NoCall == [n |-> 0, sport |-> "", at |-> 0, value |-> [id |-> 0, games |-> <<>>], hit |-> FALSE]

(***************************************************************************)
(* tips: for each sport, collect the value picks of its games, sort them   *)
(* by edge, keep the first MAX_PICKS_PER_SPORT, append the sport's block.  *)
(***************************************************************************)
MAX_PICKS_PER_SPORT == 5

NoPicksText == "No games with value picks found today."

\* value_picks.append((edge, game, pick, odds)); idx is the game's position in games
CollectPick(picks, g, edge_result, idx) ==
    IF edge_result # None
    THEN Append(picks, [edge |-> edge_result[3], game |-> g, pick |-> edge_result[1],
                        odds |-> edge_result[2], idx |-> idx])
    ELSE picks

NextGameIdxAbort(i, gs, edge_result) == IF edge_result = None THEN Len(gs) + 1 ELSE i + 1

\* the for loop goes on to the next game whatever naive_edge returned
NextGameIdx(i, gs, edge_result) == i + 1

RECURSIVE InsertDescUnstable(_, _)
InsertDescUnstable(x, s) ==
    IF s = <<>> THEN <<x>>
    ELSE IF RLeq(Head(s).edge, x.edge) THEN <<x>> \o s
    ELSE <<Head(s)>> \o InsertDescUnstable(x, Tail(s))

RECURSIVE InsertDesc(_, _)
InsertDesc(x, s) ==
    IF s = <<>> THEN <<x>>
    ELSE IF RLess(Head(s).edge, x.edge) THEN <<x>> \o s
    ELSE <<Head(s)>> \o InsertDesc(x, Tail(s))

\* value_picks.sort(key=lambda x: x[0], reverse=True): stable, descending by edge
RECURSIVE SortPicks(_)
SortPicks(picks) ==
    IF picks = <<>> THEN <<>>
    ELSE InsertDesc(picks[Len(picks)], SortPicks(SubSeq(picks, 1, Len(picks) - 1)))

\* value_picks[:MAX_PICKS_PER_SPORT]
TopN(sorted) ==
    SubSeq(sorted, 1, IF Len(sorted) < MAX_PICKS_PER_SPORT THEN Len(sorted)
                      ELSE MAX_PICKS_PER_SPORT)

PrependBlock(m, sport, top) == <<[sport |-> sport, picks |-> top]>> \o m

\* msg.append(block of the sport)
AppendBlock(m, sport, top) == Append(m, [sport |-> sport, picks |-> top])

\* response = "\n\n".join(msg) if msg else "No games with value picks found today."
Response(m) ==
    IF m # <<>> THEN [body |-> "blocks", blocks |-> m]
    ELSE [body |-> NoPicksText, blocks |-> <<>>]

NoIterOut == [fetch_failed |-> <<>>, no_picks |-> <<>>]

IdleTips ==
    /\ sportIdx = 0 /\ games = <<>> /\ gameIdx = 0 /\ value_picks = <<>>
    /\ top_picks = <<>> /\ edgeLog = <<>> /\ iterOut = NoIterOut /\ msg = <<>>
    /\ response = [body |-> "", blocks |-> <<>>]

IdleCache == cache = <<>> /\ clock = 0 /\ requests = <<>> /\ lastCall = NoCall

IdleEdge == game = <<>> /\ order = <<>> /\ edge = <<>>

tipsVars == <<sportIdx, games, gameIdx, value_picks, top_picks, edgeLog, iterOut,
              msg, response>>

cacheVars == <<cache, clock, requests, lastCall>>

edgeVars == <<game, order, edge>>

InitEdge ==
    /\ game \in EdgeGames
    /\ order \in Orders(game)
    /\ edge = <<>>
    /\ pc = "naive_edge"
    /\ IdleTips /\ IdleCache

\* edge_result = naive_edge(game)
CallNaiveEdge ==
    /\ pc = "naive_edge"
    /\ edge' = <<NaiveEdge(game, order)>>
    /\ pc' = "returned"
    /\ UNCHANGED <<game, order, tipsVars, cacheVars>>

NextEdge == CallNaiveEdge

SpecEdge == InitEdge /\ [][NextEdge]_vars

Returned == pc = "returned"

Locals == edge[1]

(***************************************************************************)
(* Properties of naive_edge, checked under SpecEdge.                       *)
(***************************************************************************)
Roi(L, n) == RSub(RMul(L.fair[n], L.best[n]), One)

\* C1: naive_edge returns a pick only with expected_roi = fair * best price - 1
\* >= 0.05; when the largest expected_roi over the outcomes with a best price is
\* >= 0.05 it returns an outcome attaining it, with its best price and that
\* maximum as the edge; when estimation fails it returns no pick.
C1_ThresholdGate ==
    Returned =>
        LET L == Locals
            r == L.result
        IN  /\ ~L.estimated => r = None
            /\ r # None =>
                /\ L.estimated
                /\ r[1] \in DOMAIN L.best
                /\ r[2] = L.best[r[1]]
                /\ r[3] = Roi(L, r[1])
                /\ RLeq(<<1, 20>>, r[3])
            /\ (L.estimated /\ \E n \in DOMAIN L.best : RLeq(<<1, 20>>, Roi(L, n))) =>
                /\ r # None
                /\ \A n \in DOMAIN L.best : RLeq(Roi(L, n), r[3])

\* a pick was returned and it beats another priced outcome strictly
C1_Witness ==
    /\ Returned
    /\ Locals.result # None
    /\ \E n \in DOMAIN Locals.best : RLess(Roi(Locals, n), Locals.result[3])

\* C3: two runs of naive_edge on the same match return the same pick, price and
\* edge, whatever order each run enumerates the set of outcome names in.
C3_SameResultInEveryOrder ==
    Returned => \A o \in Orders(game) : NaiveEdge(game, o).result = Locals.result

\* C4: when estimation succeeds, fair_probs has an entry for every outcome name
\* of the match, every entry is in [0,1], and the entries sum to 1.
C4_FairProbsDistribution ==
    (Returned /\ Locals.estimated) =>
        /\ DOMAIN Locals.fair = OutcomeNames(game)
        /\ \A n \in OutcomeNames(game) :
              RLeq(Zero, Locals.fair[n]) /\ RLeq(Locals.fair[n], One)
        /\ SumValues(Locals.fair, order) = One

\* estimation succeeded on medians that did not already sum to 1
C4_Witness ==
    /\ Returned
    /\ Locals.estimated
    /\ SumValues(Locals.consensus, order) # One

\* C8: on Scenario A the best prices are A = 2.00 (X) and B = 2.00 (Y), each
\* bookmaker is left out of the consensus of its best-priced outcome, the fair
\* probabilities are 38/77 and 39/77, the edges -1/77 and 1/77, and no pick is
\* returned.
C8_ScenarioA ==
    (Returned /\ game = ScenarioA) =>
        LET L == Locals
        IN  /\ L.estimated
            /\ L.best["A"] = <<2, 1>> /\ L.best["B"] = <<2, 1>>
            /\ L.data[1].outcomes_dict["A"] = L.best["A"]
            /\ L.data[2].outcomes_dict["B"] = L.best["B"]
            /\ L.cands["A"] = <<L.data[2].vig_free["A"]>>
            /\ L.cands["B"] = <<L.data[1].vig_free["B"]>>
            /\ L.fair["A"] = <<38, 77>> /\ L.fair["B"] = <<39, 77>>
            /\ Roi(L, "A") = <<-1, 77>> /\ Roi(L, "B") = <<1, 77>>
            /\ L.result = None

\* naive_edge has returned on Scenario A
C8_Witness == Returned /\ game = ScenarioA /\ Locals.estimated

ProbsOf(kept, name) == [i \in 1..Len(kept) |-> kept[i].vig_free[name]]

KeptNotAtBest(L, name) ==
    ProbsOf(SelectSeq(L.data, LAMBDA d : ~(/\ name \in DOMAIN d.outcomes_dict
                                           /\ d.outcomes_dict[name] = L.best[name])), name)

KeptNonzero(L, name) ==
    ProbsOf(SelectSeq(L.data, LAMBDA d : d.vig_free[name] # Zero), name)

KeptBelowBest(L, name) ==
    ProbsOf(SelectSeq(L.data, LAMBDA d : /\ name \in DOMAIN d.outcomes_dict
                                         /\ RLess(d.outcomes_dict[name], L.best[name])), name)

\* C9 as stated: the candidates of an outcome are the vig-free probabilities of
\* every usable bookmaker not quoting it at the best price, and only when there
\* is none, those of all bookmakers with a nonzero probability for it.
C9_AsStated ==
    (Returned /\ Locals.estimated) =>
        \A n \in OutcomeNames(game) :
            Locals.cands[n] =
                IF KeptNotAtBest(Locals, n) # <<>>
                THEN KeptNotAtBest(Locals, n)
                ELSE KeptNonzero(Locals, n)

\* C9 amended: the candidates of an outcome are the vig-free probabilities of the
\* usable bookmakers that quote it (nonzero probability) below the best price,
\* and only when there is none, those of all bookmakers with a nonzero
\* probability for it; so a best-price bookmaker contributes only in that case.
C9_Candidates ==
    (Returned /\ Locals.estimated) =>
        \A n \in OutcomeNames(game) :
            Locals.cands[n] =
                IF KeptBelowBest(Locals, n) # <<>>
                THEN KeptBelowBest(Locals, n)
                ELSE KeptNonzero(Locals, n)

\* an outcome quoted below its best price by one bookmaker, at the best price by
\* another, and not at all by a third usable one
C9_Witness ==
    /\ Returned
    /\ Locals.estimated
    /\ \E n \in OutcomeNames(game) :
          /\ KeptBelowBest(Locals, n) # <<>>
          /\ Len(Locals.cands[n]) < Len(KeptNonzero(Locals, n))
          /\ \E i \in 1..Len(Locals.data) : n \notin DOMAIN Locals.data[i].outcomes_dict

(***************************************************************************)
(* The tips handler, one step per loop iteration.                          *)
(***************************************************************************)
MaxRunGames == 2

MaxGames == 6

\* one bookmaker quoting a single outcome: fewer than 2 outcome names
Unscoreable == [home_team |-> "Unscoreable",
                bookmakers |-> <<[markets |-> <<[outcomes |-> ("A" :> <<2, 1>>)]>>]>>]

\* a bookmaker record without a market: naive_edge raises and swallows IndexError
MalformedGame == [home_team |-> "Malformed", bookmakers |-> <<[markets |-> <<>>]>>]

\* X quotes A=3.00, B=1.50; Y quotes A=2.00, B=2.00: pick A with edge 2/7,
\* below the edge of Scenario B
MidGame == [home_team |-> "Mid",
            bookmakers |-> <<Quote2(<<3, 1>>, <<3, 2>>), Quote2(<<2, 1>>, <<2, 1>>)>>]

TipsCatalog == {Unscoreable, MalformedGame, ScenarioB, MidGame}

RankCatalog == {Unscoreable, ScenarioB, MidGame}

\* what the network can answer to one request of a run that has seen n games
TipsNets(n) ==
    {[ok |-> FALSE, games |-> <<>>]}
    \cup {[ok |-> TRUE, games |-> gs] : gs \in SeqsUpTo(TipsCatalog, MaxRunGames - n)}

\* the blocks an iteration appended to msg
Added(before, after) == SubSeq(after, Len(before) + 1, Len(after))

AfterSport(i) == IF i + 1 > Len(SPORTS) THEN "reply" ELSE "fetch"

\* /tips arrives: msg = []
StartTips ==
    /\ pc = "idle"
    /\ pc' = "fetch"
    /\ sportIdx' = 1
    /\ msg' = <<>>
    /\ UNCHANGED <<games, gameIdx, value_picks, top_picks, edgeLog, iterOut, response,
                   edgeVars, cacheVars>>

\* games = get_odds(sport); if not games: continue; value_picks = []
FetchSport ==
    /\ pc = "fetch"
    /\ sportIdx <= Len(SPORTS)
    /\ msg' = msg
    /\ \E net \in TipsNets(Len(edgeLog)) :
          LET got == GetOdds(cache, requests, clock, SPORTS[sportIdx], net)
          IN  /\ cache' = got.cache
              /\ requests' = got.requests
              /\ lastCall' = Called(lastCall, SPORTS[sportIdx], clock, got)
              /\ games' = got.value.games
              /\ IF got.value.games = <<>>
                 THEN /\ sportIdx' = sportIdx + 1
                      /\ pc' = AfterSport(sportIdx)
                      /\ iterOut' = IF ~got.hit /\ ~net.ok
                                    THEN [iterOut EXCEPT !.fetch_failed = <<Added(msg, msg')>>]
                                    ELSE iterOut
                      /\ UNCHANGED <<value_picks, gameIdx>>
                 ELSE /\ value_picks' = <<>>
                      /\ gameIdx' = 1
                      /\ pc' = "collect"
                      /\ UNCHANGED <<sportIdx, iterOut>>
    /\ UNCHANGED <<top_picks, edgeLog, response, clock, edgeVars>>

\* one iteration of "for game in games": naive_edge, then collect its pick
ProcessGame ==
    /\ pc = "collect"
    /\ gameIdx <= Len(games)
    /\ \E o \in Orders(games[gameIdx]) :
          LET edge_result == NaiveEdge(games[gameIdx], o).result
          IN  /\ value_picks' = CollectPick(value_picks, games[gameIdx], edge_result, gameIdx)
              /\ gameIdx' = NextGameIdx(gameIdx, games, edge_result)
              /\ edgeLog' = Append(edgeLog, [sport |-> sportIdx, idx |-> gameIdx,
                                             result |-> edge_result])
    /\ UNCHANGED <<pc, sportIdx, games, top_picks, iterOut, msg, response,
                   edgeVars, cacheVars>>

\* after the games: if not value_picks: continue; else sort, truncate, append the block
RankSport ==
    /\ pc = "collect"
    /\ gameIdx > Len(games)
    /\ IF value_picks = <<>>
       THEN /\ top_picks' = top_picks
            /\ msg' = msg
            /\ iterOut' = [iterOut EXCEPT !.no_picks = <<Added(msg, msg')>>]
       ELSE /\ top_picks' = TopN(SortPicks(value_picks))
            /\ msg' = AppendBlock(msg, SPORTS[sportIdx], top_picks')
            /\ UNCHANGED iterOut
    /\ sportIdx' = sportIdx + 1
    /\ pc' = AfterSport(sportIdx)
    /\ UNCHANGED <<games, gameIdx, value_picks, edgeLog, response, edgeVars, cacheVars>>

\* reply_markdown(response + footer)
Reply ==
    /\ pc = "reply"
    /\ response' = Response(msg)
    /\ pc' = "replied"
    /\ UNCHANGED <<sportIdx, games, gameIdx, value_picks, top_picks, edgeLog, iterOut, msg,
                   edgeVars, cacheVars>>

InitTips == pc = "idle" /\ IdleTips /\ IdleCache /\ IdleEdge

NextTips == StartTips \/ FetchSport \/ ProcessGame \/ RankSport \/ Reply

SpecTips == InitTips /\ [][NextTips]_vars

\* the cache and the request log once the last sport of a first run has been fetched
FirstRunCache(gs) ==
    [i \in 1..Len(SPORTS) |->
        [key |-> <<SPORTS[i], 0>>,
         value |-> [id |-> i, games |-> IF i = Len(SPORTS) THEN gs ELSE <<>>]]]

FirstRunRequests == [i \in 1..Len(SPORTS) |-> [sport |-> SPORTS[i], at |-> 0, id |-> i]]

\* the ranking of one sport: the last sport of a run has just been fetched with games
InitRank ==
    /\ games \in SeqsUpTo(RankCatalog, MaxGames) \ {<<>>}
    /\ pc = "collect"
    /\ sportIdx = Len(SPORTS)
    /\ gameIdx = 1
    /\ value_picks = <<>> /\ top_picks = <<>> /\ edgeLog = <<>> /\ msg = <<>>
    /\ iterOut = NoIterOut
    /\ response = [body |-> "", blocks |-> <<>>]
    /\ cache = FirstRunCache(games)
    /\ requests = FirstRunRequests
    /\ clock = 0
    /\ lastCall = [n |-> Len(SPORTS), sport |-> SPORTS[Len(SPORTS)], at |-> 0,
                   value |-> [id |-> Len(SPORTS), games |-> games], hit |-> FALSE]
    /\ IdleEdge

NextRank == ProcessGame \/ RankSport \/ Reply

SpecRank == InitRank /\ [][NextRank]_vars

(***************************************************************************)
(* get_odds called sport after sport, as tips does, while time passes.     *)
(***************************************************************************)
MaxCalls == 34

MaxClock == 1800

TickStep == 600

CacheNets == {[ok |-> TRUE, games |-> <<>>], [ok |-> FALSE, games |-> <<>>]}

CallGetOdds ==
    /\ pc = "get_odds"
    /\ lastCall.n < MaxCalls
    /\ \E net \in CacheNets :
          LET got == GetOdds(cache, requests, clock, SPORTS[sportIdx], net)
          IN  /\ cache' = got.cache
              /\ requests' = got.requests
              /\ lastCall' = Called(lastCall, SPORTS[sportIdx], clock, got)
    /\ sportIdx' = (sportIdx % Len(SPORTS)) + 1
    /\ UNCHANGED <<pc, games, gameIdx, value_picks, top_picks, edgeLog, iterOut, msg,
                   response, clock, edgeVars>>

\* time.time() advances
Tick ==
    /\ pc = "get_odds"
    /\ clock < MaxClock
    /\ clock' = clock + TickStep
    /\ UNCHANGED <<pc, tipsVars, edgeVars, cache, requests, lastCall>>

InitCache ==
    /\ pc = "get_odds"
    /\ sportIdx = 1
    /\ games = <<>> /\ gameIdx = 0 /\ value_picks = <<>> /\ top_picks = <<>>
    /\ edgeLog = <<>> /\ iterOut = NoIterOut /\ msg = <<>>
    /\ response = [body |-> "", blocks |-> <<>>]
    /\ IdleCache /\ IdleEdge

NextCache == CallGetOdds \/ Tick

SpecCache == InitCache /\ [][NextCache]_vars

(***************************************************************************)
(* Properties of the ranking of one sport, checked under SpecRank.         *)
(***************************************************************************)
Ranked == pc \in {"reply", "replied"} /\ value_picks # <<>>

\* the games of the sport for which naive_edge returned a pick, in input order
QualifyingLog == SelectSeq(edgeLog, LAMBDA e : e.result # None)

KeptIdx == {top_picks[k].idx : k \in 1..Len(top_picks)}

\* C2: the top picks of a sport are non-increasing in edge, at most 5, each the
\* pick naive_edge returned for a distinct game of the input, as many as the
\* limit allows; no qualifying pick left out has a greater edge than one kept;
\* kept picks of equal edge are in the order of their games in the input.
C2_TopPicksRanked ==
    Ranked =>
        /\ Len(top_picks) <= 5
        /\ Len(top_picks) = IF Len(QualifyingLog) < 5 THEN Len(QualifyingLog) ELSE 5
        /\ \A k \in 1..(Len(top_picks) - 1) : RLeq(top_picks[k + 1].edge, top_picks[k].edge)
        /\ \A k \in 1..Len(top_picks) :
              \E i \in 1..Len(QualifyingLog) :
                  /\ QualifyingLog[i].idx = top_picks[k].idx
                  /\ QualifyingLog[i].result =
                         <<top_picks[k].pick, top_picks[k].odds, top_picks[k].edge>>
                  /\ games[top_picks[k].idx] = top_picks[k].game
        /\ \A k, l \in 1..Len(top_picks) : k < l => top_picks[k].idx # top_picks[l].idx
        /\ \A i \in 1..Len(QualifyingLog) :
              QualifyingLog[i].idx \notin KeptIdx =>
                  \A k \in 1..Len(top_picks) :
                      ~RLess(top_picks[k].edge, QualifyingLog[i].result[3])
        /\ \A k, l \in 1..Len(top_picks) :
              (k < l /\ top_picks[k].edge = top_picks[l].edge) =>
                  top_picks[k].idx < top_picks[l].idx

\* more than 5 qualifying games, reordered by the sort, two kept picks of equal
\* edge, and a kept pick of lower edge than the first
C2_Witness ==
    /\ Ranked
    /\ Len(value_picks) > 5
    /\ top_picks # SubSeq(value_picks, 1, 5)
    /\ \E k, l \in 1..Len(top_picks) : k < l /\ top_picks[k].edge = top_picks[l].edge
    /\ \E k \in 1..Len(top_picks) : RLess(top_picks[k].edge, top_picks[1].edge)

(***************************************************************************)
(* Properties of one run of tips, checked under SpecTips.                  *)
(***************************************************************************)
Finished(s) == s \in 1..(sportIdx - 1)

\* the list get_odds returned for sport number s of this run: a first run fills
\* the cache in the order of SPORTS
FetchedGames(s) == cache[s].value.games

LogOf(s) == SelectSeq(edgeLog, LAMBDA e : e.sport = s)

BlocksOf(s) == SelectSeq(msg, LAMBDA b : b.sport = SPORTS[s])

\* the failures of estimation: no bookmakers, a malformed bookmaker record, fewer
\* than 2 distinct outcome names, a price of 0
FailsEstimation(g) ==
    \/ g.bookmakers = <<>>
    \/ \E i \in 1..Len(g.bookmakers) : g.bookmakers[i].markets = <<>>
    \/ Cardinality(UNION {DOMAIN g.bookmakers[i].markets[1].outcomes :
                          i \in 1..Len(g.bookmakers)}) < 2
    \/ \E i \in 1..Len(g.bookmakers) :
          \E n \in DOMAIN g.bookmakers[i].markets[1].outcomes :
              g.bookmakers[i].markets[1].outcomes[n] = Zero

\* the picks of the games of fetched whose log entries are kept, in that order
RECURSIVE PicksOf(_, _)
PicksOf(fetched, kept) ==
    IF kept = <<>> THEN <<>>
    ELSE LET e == kept[Len(kept)]
         IN  Append(PicksOf(fetched, SubSeq(kept, 1, Len(kept) - 1)),
                    [edge |-> e.result[3], game |-> fetched[e.idx], pick |-> e.result[1],
                     odds |-> e.result[2], idx |-> Len(kept)])

Shown(picks) ==
    [k \in 1..Len(picks) |-> <<picks[k].edge, picks[k].game, picks[k].pick, picks[k].odds>>]

\* C5: a game that fails estimation makes naive_edge return None; the games
\* after it are still processed, the picks of the sport are those computed
\* from its games with those naive_edge returned None for removed, and every
\* sport of SPORTS is still fetched before the reply.
C5_FailuresAreSkipped ==
    /\ \A s \in 1..(sportIdx - 1) :
          LET fetched == FetchedGames(s)
              log == LogOf(s)
              blocks == BlocksOf(s)
              kept == PicksOf(fetched, SelectSeq(log, LAMBDA e : e.result # None))
          IN  /\ cache[s].key[1] = SPORTS[s]
              /\ Len(log) = Len(fetched)
              /\ \A i \in 1..Len(log) :
                    /\ log[i].idx = i
                    /\ FailsEstimation(fetched[i]) => log[i].result = None
              /\ IF kept = <<>> THEN blocks = <<>>
                 ELSE /\ Len(blocks) = 1
                      /\ Shown(blocks[1].picks) = Shown(TopN(SortPicks(kept)))
    /\ pc \in {"reply", "replied"} =>
          /\ sportIdx = Len(SPORTS) + 1
          /\ Len(requests) = Len(SPORTS)

\* a sport whose failing game precedes a game with a pick got its block, and
\* a later sport was fetched after it
C5_Witness ==
    \E s \in 1..Len(SPORTS) :
        /\ Finished(s)
        /\ Len(FetchedGames(s)) >= 2
        /\ FailsEstimation(FetchedGames(s)[1])
        /\ ~FailsEstimation(FetchedGames(s)[2])
        /\ BlocksOf(s) # <<>>
        /\ Len(requests) > s

\* C6: what the iteration of a sport whose games all fail estimation or
\* selection produces differs from what the iteration of a sport whose fetch
\* failed produces.
C6_EmptyDistinctFromFetchFailure ==
    (iterOut.fetch_failed # <<>> /\ iterOut.no_picks # <<>>) =>
        iterOut.fetch_failed # iterOut.no_picks

Qualifying(s) == \E i \in 1..Len(edgeLog) : edgeLog[i].sport = s /\ edgeLog[i].result # None

SportNumbers == [i \in 1..Len(SPORTS) |-> i]

\* C7: the sports are fetched in the order of SPORTS; the blocks built are those
\* of the finished sports with at least one qualifying pick, each once, in the
\* order of SPORTS; the reply is the "no value picks" text exactly when no sport
\* has a qualifying pick, and the blocks otherwise.
C7_BlocksInSportsOrder ==
    /\ Len(requests) <= Len(SPORTS)
    /\ \A i \in 1..Len(requests) : requests[i].sport = SPORTS[i]
    /\ LET with == SelectSeq(SportNumbers, LAMBDA s : Finished(s) /\ Qualifying(s))
       IN  [i \in 1..Len(msg) |-> msg[i].sport] = [i \in 1..Len(with) |-> SPORTS[with[i]]]
    /\ pc = "replied" =>
          /\ Len(requests) = Len(SPORTS)
          /\ IF \E s \in 1..Len(SPORTS) : Qualifying(s)
             THEN response.blocks = msg /\ response.body # NoPicksText
             ELSE response.blocks = <<>> /\ response.body = NoPicksText

\* a finished run with the blocks of two sports, the better picks in the later one
C7_Witness ==
    /\ pc = "replied"
    /\ Len(msg) = 2
    /\ RLess(msg[1].picks[1].edge, msg[2].picks[1].edge)

(***************************************************************************)
(* Properties of the cache, checked under SpecCache.                       *)
(***************************************************************************)
SameBucket(t1, t2) == t1 \div 900 = t2 \div 900

\* C10: at most one network request per sport and 15-minute bucket; a call for
\* a sport already requested in the bucket returns the result of that request;
\* the cache never holds more than 32 entries.
C10_OneRequestPerBucket ==
    /\ Len(cache) <= 32
    /\ \A i, j \in 1..Len(requests) :
          (i < j /\ requests[i].sport = requests[j].sport) =>
              ~SameBucket(requests[i].at, requests[j].at)
    /\ lastCall.n > 0 =>
          \E i \in 1..Len(requests) :
              /\ requests[i].sport = lastCall.sport
              /\ SameBucket(requests[i].at, lastCall.at)
              /\ requests[i].id = lastCall.value.id

\* the cache is full, an entry has been evicted, and the last call was served
\* from the cache
C10_Witness ==
    /\ Len(cache) = 32
    /\ Len(requests) > 32
    /\ lastCall.hit

====
